---- MODULE Spec2Model ----
(***************************************************************************)
(* Model of Opm::NNC (opm/input/eclipse/EclipseState/Grid/NNC.cpp): the    *)
(* construction NNC(grid, deck) = load_input; load_edit; load_editr, and   *)
(* the mutator addNNC.                                                     *)
(*                                                                         *)
(* A deck record is the tuple of its seven items                            *)
(*     <<I1, J1, K1, I2, J2, K2, value>>        (getItem(n) is record[n+1]) *)
(* and an NNCdata is [cell1, cell2, trans].  Transmissibilities and        *)
(* multipliers are integers; item 7 is the number getSIDouble(0) or        *)
(* get<double>(0) hands to the loader.  The keyword lists of a category    *)
(* are visited in deck order and their records in record order, so a       *)
(* category is modelled by its record stream; a category with records has  *)
(* a keyword, a category without records has none.                         *)
(***************************************************************************)
EXTENDS Integers, Sequences, FiniteSets, TLC

VARIABLES grid, deck, pc, adds,
          m_input, m_edit, m_editr,
          m_nnc_location, m_edit_location, m_editr_location

vars == <<grid, deck, pc, adds, m_input, m_edit, m_editr,
          m_nnc_location, m_edit_location, m_editr_location>>

(***************************************************************************)
(* Bounds of the model.                                                    *)
(***************************************************************************)
\* Total number of records in the deck, over the three categories.
MaxRecords == 3
\* Number of addNNC calls after construction.
MaxAdds == 1

(***************************************************************************)
(* Integer widths.  std::size_t is unsigned: static_cast<size_t>(n - 1)    *)
(* wraps a negative n - 1 to a value above every grid extent.  The         *)
(* modulus is scaled to the integers of the model checker; what matters is *)
(* that it exceeds every extent and every global index.                    *)
(***************************************************************************)
SizeTModulus == 2^30

ToSizeT(v) == v % SizeTModulus

(***************************************************************************)
(* The grid collaborator (EclipseGrid).                                    *)
(***************************************************************************)
\* 3 x 3 x 1, every cell active.
Grid331 == [NX |-> 3, NY |-> 3, NZ |-> 1, inactive |-> {}]
\* 4 x 2 x 1, the cell (I,J,K) = (3,2,1) inactive.
Grid421 == [NX |-> 4, NY |-> 2, NZ |-> 1, inactive |-> {<<2, 1, 0>>}]

Grids == {Grid331, Grid421}

cellActive(g, i, j, k) == <<i, j, k>> \notin g.inactive

getGlobalIndex(g, i, j, k) == i + j * g.NX + k * g.NX * g.NY

(***************************************************************************)
(* NNCdata and its ordering.                                               *)
(***************************************************************************)
NNCdata(c1, c2, t) == [cell1 |-> c1, cell2 |-> c2, trans |-> t]

\* NNCdata::operator< : lexicographic on (cell1, cell2).
Less(a, b) ==
    \/ a.cell1 < b.cell1
    \/ a.cell1 = b.cell1 /\ a.cell2 < b.cell2

\* The lambda `equality` of load_editr, also the test of add_edit and of the
\* merge loop: same cell pair.
SameCells(a, b) == a.cell1 = b.cell1 /\ a.cell2 = b.cell2

(***************************************************************************)
(* Index resolution.  An empty optional is <<>>.                           *)
(***************************************************************************)
\* global_index without the conversion to 0-based coordinates.
global_index_one_based(g, record, item_offset) ==
    LET i == ToSizeT(record[1 + item_offset])
        j == ToSizeT(record[2 + item_offset])
        k == ToSizeT(record[3 + item_offset])
    IN  IF i >= g.NX THEN <<>>
        ELSE IF j >= g.NY THEN <<>>
        ELSE IF k >= g.NZ THEN <<>>
        ELSE IF ~cellActive(g, i, j, k) THEN <<>>
        ELSE <<getGlobalIndex(g, i, j, k)>>

\* global_index without the bound check of K.
global_index_unchecked_k(g, record, item_offset) ==
    LET i == ToSizeT(record[1 + item_offset] - 1)
        j == ToSizeT(record[2 + item_offset] - 1)
        k == ToSizeT(record[3 + item_offset] - 1)
    IN  IF i >= g.NX THEN <<>>
        ELSE IF j >= g.NY THEN <<>>
        ELSE IF ~cellActive(g, i, j, k) THEN <<>>
        ELSE <<getGlobalIndex(g, i, j, k)>>

global_index(g, record, item_offset) ==
    LET i == ToSizeT(record[1 + item_offset] - 1)
        j == ToSizeT(record[2 + item_offset] - 1)
        k == ToSizeT(record[3 + item_offset] - 1)
    IN  IF i >= g.NX THEN <<>>
        ELSE IF j >= g.NY THEN <<>>
        ELSE IF k >= g.NZ THEN <<>>
        ELSE IF ~cellActive(g, i, j, k) THEN <<>>
        ELSE <<getGlobalIndex(g, i, j, k)>>

\* make_index_pair that returns the pair in declaration order.
make_index_pair_unordered(g, record) ==
    LET g1 == global_index(g, record, 0)
        g2 == global_index(g, record, 3)
    IN  IF g1 = <<>> THEN <<>>
        ELSE IF g2 = <<>> THEN <<>>
        ELSE <<g1[1], g2[1]>>

make_index_pair(g, record) ==
    LET g1 == global_index(g, record, 0)
        g2 == global_index(g, record, 3)
    IN  IF g1 = <<>> THEN <<>>
        ELSE IF g2 = <<>> THEN <<>>
        ELSE IF g1[1] < g2[1] THEN <<g1[1], g2[1]>>
        ELSE <<g2[1], g1[1]>>

\* is_neighbor without the test against NY.
is_neighbor_no_ny(g, g1, g2) ==
    LET diff == ToSizeT(g2 - g1)
    IN  \/ diff = 0
        \/ diff = 1
        \/ diff = g.NX

is_neighbor(g, g1, g2) ==
    LET diff == ToSizeT(g2 - g1)
    IN  \/ diff = 0
        \/ diff = 1
        \/ diff = g.NX
        \/ diff = g.NY

(***************************************************************************)
(* Standard algorithms.                                                    *)
(***************************************************************************)
IsSorted(v) == \A i \in 1..(Len(v) - 1) : ~Less(v[i + 1], v[i])

RemoveAt(v, i) == SubSeq(v, 1, i - 1) \o SubSeq(v, i + 1, Len(v))

RECURSIVE Arrangements(_)
Arrangements(v) ==
    IF v = <<>> THEN {<<>>}
    ELSE UNION { { <<v[i]>> \o w : w \in Arrangements(RemoveAt(v, i)) } :
                 i \in 1..Len(v) }

\* std::sort: the result is ordered by operator<; the order of elements
\* that compare equivalent is unspecified, so every ordered arrangement is
\* a possible result.
StdSort(v) == { w \in Arrangements(v) : IsSorted(w) }

\* std::stable_sort: equivalent elements keep their relative order.
RECURSIVE StableInsert(_, _)
StableInsert(sorted, x) ==
    IF sorted = <<>> THEN <<x>>
    ELSE IF Less(x, Head(sorted)) THEN <<x>> \o sorted
    ELSE <<Head(sorted)>> \o StableInsert(Tail(sorted), x)

RECURSIVE StableSort(_)
StableSort(v) ==
    IF v = <<>> THEN <<>>
    ELSE StableInsert(StableSort(SubSeq(v, 1, Len(v) - 1)), v[Len(v)])

\* std::lower_bound: the first position whose element is not less than x
\* (Len(v) + 1 is end()).
RECURSIVE LowerBoundFrom(_, _, _)
LowerBoundFrom(v, x, i) ==
    IF i > Len(v) THEN i
    ELSE IF ~Less(v[i], x) THEN i
    ELSE LowerBoundFrom(v, x, i + 1)

LowerBound(v, x) == LowerBoundFrom(v, x, 1)

\* std::unique with the predicate `equality`: of every run of consecutive
\* equal elements the first is kept.
RECURSIVE Unique(_)
Unique(v) ==
    IF Len(v) <= 1 THEN v
    ELSE IF SameCells(v[1], v[2]) THEN Unique(<<v[1]>> \o SubSeq(v, 3, Len(v)))
    ELSE <<v[1]>> \o Unique(Tail(v))

\* std::set_difference of two ranges ordered by operator<.
RECURSIVE SetDifference(_, _)
SetDifference(a, b) ==
    IF a = <<>> THEN <<>>
    ELSE IF b = <<>> THEN a
    ELSE IF Less(Head(a), Head(b)) THEN <<Head(a)>> \o SetDifference(Tail(a), b)
    ELSE IF Less(Head(b), Head(a)) THEN SetDifference(a, Tail(b))
    ELSE SetDifference(Tail(a), Tail(b))

(***************************************************************************)
(* The record loops of the three loaders.                                  *)
(***************************************************************************)
\* load_input: the loop over the NNC records (emplace_back in deck order).
RECURSIVE CollectInput(_, _)
CollectInput(g, records) ==
    IF records = <<>> THEN <<>>
    ELSE LET record == Head(records)
             index_pair == make_index_pair(g, record)
         IN  IF index_pair = <<>>
             THEN CollectInput(g, Tail(records))
             ELSE <<NNCdata(index_pair[1], index_pair[2], record[7])>>
                  \o CollectInput(g, Tail(records))

\* load_edit: the loop over the EDITNNC records (emplace_back in deck order).
RECURSIVE CollectEdit(_, _)
CollectEdit(g, records) ==
    IF records = <<>> THEN <<>>
    ELSE LET record == Head(records)
             tran_mult == record[7]
             index_pair == make_index_pair(g, record)
         IN  IF tran_mult = 1
             THEN CollectEdit(g, Tail(records))
             ELSE IF index_pair = <<>>
             THEN CollectEdit(g, Tail(records))
             ELSE IF is_neighbor(g, index_pair[1], index_pair[2])
             THEN CollectEdit(g, Tail(records))
             ELSE <<NNCdata(index_pair[1], index_pair[2], tran_mult)>>
                  \o CollectEdit(g, Tail(records))

\* The loop of load_editr with emplace_back in place of emplace_front.
RECURSIVE CollectEditrBack(_, _)
CollectEditrBack(g, records) ==
    IF records = <<>> THEN <<>>
    ELSE LET record == Head(records)
             index_pair == make_index_pair(g, record)
         IN  IF index_pair = <<>>
             THEN CollectEditrBack(g, Tail(records))
             ELSE IF is_neighbor(g, index_pair[1], index_pair[2])
             THEN CollectEditrBack(g, Tail(records))
             ELSE <<NNCdata(index_pair[1], index_pair[2], record[7])>>
                  \o CollectEditrBack(g, Tail(records))

\* load_editr: the loop over the EDITNNCR records (emplace_front, so the
\* deque holds the surviving records in reverse deck order).
RECURSIVE CollectEditr(_, _)
CollectEditr(g, records) ==
    IF records = <<>> THEN <<>>
    ELSE LET record == Head(records)
             index_pair == make_index_pair(g, record)
         IN  IF index_pair = <<>>
             THEN CollectEditr(g, Tail(records))
             ELSE IF is_neighbor(g, index_pair[1], index_pair[2])
             THEN CollectEditr(g, Tail(records))
             ELSE CollectEditr(g, Tail(records))
                  \o <<NNCdata(index_pair[1], index_pair[2], record[7])>>

(***************************************************************************)
(* load_edit: the merge of the sorted edits into m_input / m_edit.         *)
(***************************************************************************)
\* add_edit that always appends.
add_edit_push_back(edit, edit_node) == Append(edit, edit_node)

\* NNC::add_edit
add_edit(edit, edit_node) ==
    IF edit # <<>> /\ SameCells(edit[Len(edit)], edit_node)
    THEN [edit EXCEPT ![Len(edit)].trans = @ * edit_node.trans]
    ELSE Append(edit, edit_node)

\* The scaling with an `if` in place of the `while`: one entry is scaled.
ScaleRunFirstOnly(input, current_input, current_edit, edit_processed) ==
    IF /\ current_input # Len(input) + 1
       /\ SameCells(input[current_input], current_edit)
    THEN [input |-> [input EXCEPT ![current_input].trans = @ * current_edit.trans],
          cur |-> current_input + 1, processed |-> TRUE]
    ELSE [input |-> input, cur |-> current_input, processed |-> edit_processed]

\* The while loop: scale every consecutive entry of the run at the cursor.
RECURSIVE ScaleRun(_, _, _, _)
ScaleRun(input, current_input, current_edit, edit_processed) ==
    IF /\ current_input # Len(input) + 1
       /\ SameCells(input[current_input], current_edit)
    THEN ScaleRun([input EXCEPT ![current_input].trans = @ * current_edit.trans],
                  current_input + 1, current_edit, TRUE)
    ELSE [input |-> input, cur |-> current_input, processed |-> edit_processed]

\* One iteration of the for loop over nnc_edit.  st = [input, edit, cur];
\* cur is the iterator current_input, Len(input) + 1 being end().
MergeEdit(st, current_edit) ==
    LET end == Len(st.input) + 1
    IN  IF st.cur = end
        THEN [st EXCEPT !.edit = add_edit(st.edit, current_edit)]
        ELSE LET seek == IF ~SameCells(st.input[st.cur], current_edit)
                         THEN LowerBound(st.input,
                                         NNCdata(current_edit.cell1, current_edit.cell2, 0))
                         ELSE st.cur
             IN  IF seek = end
                 THEN [input |-> st.input, cur |-> end,
                       edit |-> add_edit(st.edit, current_edit)]
                 ELSE LET run == ScaleRun(st.input, seek, current_edit, FALSE)
                      IN  [input |-> run.input, cur |-> run.cur,
                           edit |-> IF ~run.processed
                                    THEN add_edit(st.edit, current_edit)
                                    ELSE st.edit]

RECURSIVE MergeEdits(_, _)
MergeEdits(st, nnc_edit) ==
    IF nnc_edit = <<>> THEN st
    ELSE MergeEdits(MergeEdit(st, Head(nnc_edit)), Tail(nnc_edit))

(***************************************************************************)
(* The three loaders as functions of the object they are called on.        *)
(***************************************************************************)
\* load_input, lines 102-117: every value m_input can have on return.
load_input(g, records, input) == StdSort(input \o CollectInput(g, records))

\* load_edit, lines 122-179: every pair [input, edit] of values m_input and
\* m_edit can have on return.
load_edit(g, records, input, edit) ==
    { LET st == MergeEdits([input |-> input, edit |-> edit, cur |-> 1], nnc_edit)
      IN  [input |-> st.input, edit |-> st.edit] :
      nnc_edit \in StdSort(CollectEdit(g, records)) }

\* stable_sort, unique, erase (lines 226-236).
DedupEditr(nnc_editr) == Unique(StableSort(nnc_editr))

\* load_editr without the purge of m_edit.
PurgeEditNone(edit, nnc_editr) == edit

\* slim_edit (lines 240-245).
PurgeEdit(edit, nnc_editr) == SetDifference(edit, nnc_editr)

\* load_editr, lines 189-253: the values [edit, editr] of m_edit and m_editr
\* on return.
load_editr(g, records, edit, editr) ==
    LET nnc_editr == CollectEditr(g, records)
    IN  IF records = <<>> THEN [edit |-> edit, editr |-> editr]
        ELSE IF nnc_editr = <<>> THEN [edit |-> edit, editr |-> editr]
        ELSE [edit |-> PurgeEdit(edit, DedupEditr(nnc_editr)),
              editr |-> DedupEditr(nnc_editr)]

(***************************************************************************)
(* The deck: the record streams the model draws its inputs from.           *)
(***************************************************************************)
Rec(c1, c2, value) == <<c1[1], c1[2], c1[3], c2[1], c2[2], c2[3], value>>

\* NNC records (value = transmissibility).
NNCRecords ==
    { Rec(<<1, 1, 1>>, <<3, 3, 1>>, 5),    \* 3x3x1: key (0,8);  4x2x1: J2 > NY
      Rec(<<3, 3, 1>>, <<1, 1, 1>>, 7),    \* the same pair declared backwards
      Rec(<<1, 2, 1>>, <<2, 1, 1>>, 5),    \* 3x3x1: key (1,3);  4x2x1: key (1,4)
      Rec(<<2, 1, 1>>, <<2, 1, 1>>, 5),    \* the same cell twice
      Rec(<<1, 1, 1>>, <<3, 3, 2>>, 5) }   \* K2 > NZ

\* EDITNNC records (value = multiplier).
EditRecords ==
    { Rec(<<1, 1, 1>>, <<3, 3, 1>>, 2),
      Rec(<<3, 3, 1>>, <<1, 1, 1>>, 3),
      Rec(<<1, 2, 1>>, <<2, 1, 1>>, 2),
      Rec(<<1, 2, 1>>, <<2, 1, 1>>, 1),    \* identity multiplier
      Rec(<<1, 1, 1>>, <<2, 1, 1>>, 2),    \* difference 1
      Rec(<<0, 1, 1>>, <<3, 1, 1>>, 2),    \* I1 = 0
      Rec(<<3, 1, 1>>, <<1, 1, 1>>, 3) }   \* 3x3x1: key (0,2);  4x2x1: difference NY

\* EDITNNCR records (value = transmissibility).
EditrRecords ==
    { Rec(<<1, 1, 1>>, <<3, 3, 1>>, 7),
      Rec(<<3, 3, 1>>, <<1, 1, 1>>, 9),
      Rec(<<1, 2, 1>>, <<2, 1, 1>>, 9),
      Rec(<<1, 2, 1>>, <<2, 1, 1>>, 7),
      Rec(<<2, 1, 1>>, <<2, 1, 1>>, 9),    \* difference 0
      Rec(<<1, 1, 1>>, <<1, 2, 1>>, 9),    \* difference NX
      Rec(<<1, -1, 1>>, <<3, 1, 1>>, 9),   \* J1 < 0
      Rec(<<1, 1, 1>>, <<3, 2, 1>>, 7) }   \* 3x3x1: key (0,5);  4x2x1: inactive cell

SeqsOfLen(S, n) == [1..n -> S]

\* The numbers of records of the three categories.
Shapes ==
    { n \in (0..MaxRecords) \X (0..MaxRecords) \X (0..MaxRecords) :
        n[1] + n[2] + n[3] <= MaxRecords }

\* The decks with n[1] NNC, n[2] EDITNNC and n[3] EDITNNCR records.
DecksOfShape(n) ==
    [ nnc : SeqsOfLen(NNCRecords, n[1]),
      edit : SeqsOfLen(EditRecords, n[2]),
      editr : SeqsOfLen(EditrRecords, n[3]) ]

\* Arguments of addNNC.
AddCells == {1, 3}
AddTrans == {4}

(***************************************************************************)
(* State machine.                                                          *)
(***************************************************************************)
\* A default-constructed NNC about to run NNC::NNC(grid, deck).
Init ==
    /\ grid \in Grids
    /\ \E n \in Shapes : deck \in DecksOfShape(n)
    /\ pc = "load_input"
    /\ adds = 0
    /\ m_input = <<>>
    /\ m_edit = <<>>
    /\ m_editr = <<>>
    /\ m_nnc_location = FALSE
    /\ m_edit_location = FALSE
    /\ m_editr_location = FALSE

\* NNC::load_input
LoadInput ==
    /\ pc = "load_input"
    /\ m_input' \in load_input(grid, deck.nnc, m_input)
    /\ m_nnc_location' = (m_nnc_location \/ deck.nnc # <<>>)
    /\ pc' = "load_edit"
    /\ UNCHANGED <<grid, deck, adds, m_edit, m_editr, m_edit_location, m_editr_location>>

\* NNC::load_edit
LoadEdit ==
    /\ pc = "load_edit"
    /\ \E r \in load_edit(grid, deck.edit, m_input, m_edit) :
          /\ m_input' = r.input
          /\ m_edit' = r.edit
    /\ m_edit_location' = (m_edit_location \/ deck.edit # <<>>)
    /\ pc' = "load_editr"
    /\ UNCHANGED <<grid, deck, adds, m_editr, m_nnc_location, m_editr_location>>

\* NNC::load_editr
LoadEditr ==
    /\ pc = "load_editr"
    /\ LET r == load_editr(grid, deck.editr, m_edit, m_editr)
       IN  /\ m_edit' = r.edit
           /\ m_editr' = r.editr
    /\ m_editr_location' = (m_editr_location \/ deck.editr # <<>>)
    /\ pc' = "ready"
    /\ UNCHANGED <<grid, deck, adds, m_input, m_nnc_location, m_edit_location>>

\* addNNC with push_back in place of the positional insert.
AddNNCPushBack(input, cell1, cell2, trans) ==
    IF cell1 > cell2 THEN Append(input, NNCdata(cell2, cell1, trans))
    ELSE Append(input, NNCdata(cell1, cell2, trans))

\* The position and the element NNC::addNNC inserts.
AddNNCResult(input, cell1, cell2, trans) ==
    LET nnc == IF cell1 > cell2 THEN NNCdata(cell2, cell1, trans)
               ELSE NNCdata(cell1, cell2, trans)
        insert_iter == LowerBound(input, nnc)
    IN  SubSeq(input, 1, insert_iter - 1) \o <<nnc>> \o SubSeq(input, insert_iter, Len(input))

\* NNC::addNNC
AddNNC(cell1, cell2, trans) ==
    /\ pc = "ready"
    /\ adds < MaxAdds
    /\ m_input' = AddNNCResult(m_input, cell1, cell2, trans)
    /\ adds' = adds + 1
    /\ UNCHANGED <<grid, deck, pc, m_edit, m_editr,
                   m_nnc_location, m_edit_location, m_editr_location>>

\* NNC::NNC(grid, deck), lines 94-98, on a default-constructed object: every
\* triple <<m_input, m_edit, m_editr>> construction can return.
Construct(g, d) ==
    UNION { { LET r == load_editr(g, d.editr, e.edit, <<>>)
              IN  <<e.input, r.edit, r.editr>> :
              e \in load_edit(g, d.edit, input, <<>>) } :
            input \in load_input(g, d.nnc, <<>>) }

Next ==
    \/ LoadInput
    \/ LoadEdit
    \/ LoadEditr
    \/ \E cell1 \in AddCells, cell2 \in AddCells, trans \in AddTrans :
          AddNNC(cell1, cell2, trans)

Spec == Init /\ [][Next]_vars

(***************************************************************************)
(* Vocabulary of the properties: what a declared record means, stated      *)
(* without the loaders.                                                    *)
(***************************************************************************)
\* Construction has returned and addNNC has not been called yet.
Constructed == pc = "ready" /\ adds = 0

KeyOf(e) == <<e.cell1, e.cell2>>

Keys(v) == { KeyOf(v[i]) : i \in DOMAIN v }

EntriesAt(v, K) == { i \in DOMAIN v : KeyOf(v[i]) = K }

\* The six coordinates lie in [1, extent] of their axes.
CoordsInRange(g, record) ==
    /\ record[1] \in 1..g.NX /\ record[2] \in 1..g.NY /\ record[3] \in 1..g.NZ
    /\ record[4] \in 1..g.NX /\ record[5] \in 1..g.NY /\ record[6] \in 1..g.NZ

ZeroBased(record, off) == <<record[1 + off] - 1, record[2 + off] - 1, record[3 + off] - 1>>

Resolvable(g, record) ==
    /\ CoordsInRange(g, record)
    /\ ZeroBased(record, 0) \notin g.inactive
    /\ ZeroBased(record, 3) \notin g.inactive

DeclaredIndex(g, c) == c[1] + g.NX * c[2] + g.NX * g.NY * c[3]

\* The canonical key of a resolvable record: smaller global index first.
DeclaredKey(g, record) ==
    LET a == DeclaredIndex(g, ZeroBased(record, 0))
        b == DeclaredIndex(g, ZeroBased(record, 3))
    IN  IF a <= b THEN <<a, b>> ELSE <<b, a>>

Adjacent(g, K) == (K[2] - K[1]) \in {0, 1, g.NX, g.NY}

\* Positions of the NNC records that declare key K.
BaseDecls(K) ==
    { i \in DOMAIN deck.nnc :
        Resolvable(grid, deck.nnc[i]) /\ DeclaredKey(grid, deck.nnc[i]) = K }

\* Positions of the non-identity, resolvable, non-adjacent EDITNNC records
\* that target key K.
EditDecls(K) ==
    { i \in DOMAIN deck.edit :
        /\ deck.edit[i][7] # 1
        /\ Resolvable(grid, deck.edit[i])
        /\ DeclaredKey(grid, deck.edit[i]) = K
        /\ ~Adjacent(grid, K) }

\* Positions of the resolvable, non-adjacent EDITNNCR records that target K.
EditrDecls(K) ==
    { i \in DOMAIN deck.editr :
        /\ Resolvable(grid, deck.editr[i])
        /\ DeclaredKey(grid, deck.editr[i]) = K
        /\ ~Adjacent(grid, K) }

DeclaredKeys(records) ==
    { DeclaredKey(grid, records[i]) : i \in { j \in DOMAIN records : Resolvable(grid, records[j]) } }

RECURSIVE ProductOver(_, _)
ProductOver(records, I) ==
    IF I = {} THEN 1
    ELSE LET i == CHOOSE j \in I : TRUE
         IN  records[i][7] * ProductOver(records, I \ {i})

Max(I) == CHOOSE i \in I : \A j \in I : j <= i

(***************************************************************************)
(* C1.  After construction no key of connections (m_input) has an entry in *)
(* multiplicativeOverlay (m_edit): a multiplicative edit whose key matches *)
(* a base connection is applied in place and never overlaid, also when     *)
(* several edits target the same key.                                      *)
(* The code breaks this: once the cursor current_input has run past the    *)
(* last run of m_input (line 173), line 151 sends every later edit to      *)
(* add_edit without looking its key up.                                    *)
(***************************************************************************)
C1_NoOverlayOnBaseKey ==
    Constructed => Keys(m_input) \cap Keys(m_edit) = {}

(***************************************************************************)
(* C7.  After load_edit, a key K without an entry in connections that is   *)
(* targeted by the non-identity, resolvable, non-adjacent edits of factors *)
(* f1, ..., fn (n >= 1) has exactly one entry in multiplicativeOverlay,    *)
(* of value f1 x ... x fn; and multiplicativeOverlay never holds two       *)
(* entries with the same key.                                              *)
(***************************************************************************)
C7_UnmatchedEditsAccumulate ==
    /\ pc = "load_editr" =>
          \A K \in DeclaredKeys(deck.edit) :
             (K \notin Keys(m_input) /\ EditDecls(K) # {}) =>
                /\ Cardinality(EntriesAt(m_edit, K)) = 1
                /\ \A i \in EntriesAt(m_edit, K) :
                      m_edit[i].trans = ProductOver(deck.edit, EditDecls(K))
    /\ \A i, j \in DOMAIN m_edit : KeyOf(m_edit[i]) = KeyOf(m_edit[j]) => i = j

\* Two edits of different factors on a key without base connection have
\* been folded into one overlay entry, next to an entry of another key.
C7_Witness ==
    /\ pc = "load_editr"
    /\ \E K \in DeclaredKeys(deck.edit) :
          /\ K \notin Keys(m_input)
          /\ Cardinality(EditDecls(K)) = 2
          /\ \E i, j \in EditDecls(K) : deck.edit[i][7] # deck.edit[j][7]
          /\ \E i \in EntriesAt(m_edit, K) : m_edit[i].trans = 6
    /\ Len(m_edit) = 2

(***************************************************************************)
(* C8.  After construction, a key K with n >= 1 entries in connections     *)
(* that is targeted by exactly one non-identity, non-adjacent edit, of     *)
(* factor f, has every one of its n entries at declared value x f and no   *)
(* multiplicativeOverlay entry; the entries of a key that no such edit     *)
(* targets keep their declared values.                                     *)
(***************************************************************************)
\* The number of entries of key K and value t.
CountAt(v, K, t) == Cardinality({ i \in EntriesAt(v, K) : v[i].trans = t })

DeclaredCount(K, t) == Cardinality({ i \in BaseDecls(K) : deck.nnc[i][7] = t })

ScaledBy(K, f) ==
    /\ Cardinality(EntriesAt(m_input, K)) = Cardinality(BaseDecls(K))
    /\ \A i \in BaseDecls(K) :
          CountAt(m_input, K, deck.nnc[i][7] * f) = DeclaredCount(K, deck.nnc[i][7])

C8_SingleEditScalesRun ==
    (pc \in {"load_editr", "ready"} /\ adds = 0) =>
        \A K \in DeclaredKeys(deck.nnc) :
           /\ Cardinality(EditDecls(K)) = 1 =>
                 /\ ScaledBy(K, ProductOver(deck.edit, EditDecls(K)))
                 /\ K \notin Keys(m_edit)
           /\ EditDecls(K) = {} => ScaledBy(K, 1)

\* A key with two base entries of different declared values and exactly one
\* edit: both entries are in m_input after construction.
C8_Witness ==
    /\ Constructed
    /\ \E K \in DeclaredKeys(deck.nnc) :
          /\ Cardinality(BaseDecls(K)) = 2
          /\ \E i, j \in BaseDecls(K) : deck.nnc[i][7] # deck.nnc[j][7]
          /\ Cardinality(EditDecls(K)) = 1
          /\ Cardinality(EntriesAt(m_input, K)) = 2

(***************************************************************************)
(* C2.  Last-wins replacement: after construction, a key K targeted by the *)
(* resolvable, non-adjacent replacement records of values v1, ..., vn (in  *)
(* declaration order, interleaved with records of other keys) has exactly  *)
(* one entry in replacementOverlay (m_editr), of value vn.                 *)
(***************************************************************************)
C2_LastReplacementWins ==
    pc = "ready" =>
        \A K \in DeclaredKeys(deck.editr) :
           EditrDecls(K) # {} =>
              /\ Cardinality(EntriesAt(m_editr, K)) = 1
              /\ \A i \in EntriesAt(m_editr, K) :
                    m_editr[i].trans = deck.editr[Max(EditrDecls(K))][7]

\* Key K is declared, then another key, then K again with another value.
C2_Witness ==
    /\ Constructed
    /\ Len(deck.editr) = 3
    /\ \E K \in DeclaredKeys(deck.editr) :
          /\ EditrDecls(K) = {1, 3}
          /\ deck.editr[1][7] # deck.editr[3][7]
          /\ \E L \in DeclaredKeys(deck.editr) : EditrDecls(L) = {2}
    /\ Len(m_editr) = 2

(***************************************************************************)
(* C3.  In every state reached by construction followed by addNNC calls,   *)
(* connections (m_input) is non-decreasing by key (cell1, then cell2).     *)
(***************************************************************************)
KeyLeq(K, L) == K[1] < L[1] \/ (K[1] = L[1] /\ K[2] <= L[2])

C3_ConnectionsSorted ==
    \A i, j \in DOMAIN m_input : i < j => KeyLeq(KeyOf(m_input[i]), KeyOf(m_input[j]))

\* An edit has scaled a run in place and addNNC has inserted before the end.
C3_Witness ==
    /\ pc = "ready"
    /\ adds = 1
    /\ Len(m_input) = 3
    /\ \E K \in DeclaredKeys(deck.nnc) : BaseDecls(K) # {} /\ EditDecls(K) # {}
    /\ \E i \in 1..2 : m_input[i].trans \in AddTrans /\ KeyOf(m_input[i]) # KeyOf(m_input[3])

(***************************************************************************)
(* C4.  After construction no key appears in both replacementOverlay       *)
(* (m_editr) and multiplicativeOverlay (m_edit): load_editr removes every  *)
(* multiplicative entry whose key has a replacement entry, whatever the    *)
(* two values, and keeps every other multiplicative entry unchanged.       *)
(***************************************************************************)
KeepOutside(v, KS) == SelectSeq(v, LAMBDA e : KeyOf(e) \notin KS)

C4_ReplacementPurgesOverlay ==
    /\ [](pc = "ready" => Keys(m_edit) \cap Keys(m_editr) = {})
    /\ [][pc = "load_editr" => m_edit' = KeepOutside(m_edit, Keys(m_editr'))]_vars

\* A multiplicative entry was purged by a replacement of another value and
\* a multiplicative entry of another key was kept.
C4_Witness ==
    /\ Constructed
    /\ \E K \in Keys(m_editr) :
          /\ EditDecls(K) # {}
          /\ K \notin Keys(m_input)
          /\ \A i \in EntriesAt(m_editr, K) :
                m_editr[i].trans # ProductOver(deck.edit, EditDecls(K))
    /\ m_edit # <<>>

(***************************************************************************)
(* C5.  Every stored key satisfies cell1 < cell2 strictly, in connections, *)
(* multiplicativeOverlay and replacementOverlay, in every state reached by *)
(* construction followed by addNNC calls.                                  *)
(* The statement as made (refuted: load_input and addNNC store the pair    *)
(* (c, c)):                                                                *)
(***************************************************************************)
C5_StrictKeysEverywhere ==
    /\ \A i \in DOMAIN m_input : m_input[i].cell1 < m_input[i].cell2
    /\ \A i \in DOMAIN m_edit : m_edit[i].cell1 < m_edit[i].cell2
    /\ \A i \in DOMAIN m_editr : m_editr[i].cell1 < m_editr[i].cell2

\* C5 as amended: every stored key satisfies cell1 <= cell2, strictly in
\* multiplicativeOverlay and replacementOverlay; connections can hold
\* self-pairs.
C5_OrderedKeys ==
    /\ \A i \in DOMAIN m_input : m_input[i].cell1 <= m_input[i].cell2
    /\ \A i \in DOMAIN m_edit : m_edit[i].cell1 < m_edit[i].cell2
    /\ \A i \in DOMAIN m_editr : m_editr[i].cell1 < m_editr[i].cell2

\* A pair declared backwards is stored, addNNC has stored a self-pair, and
\* an overlay holds an entry.
C5_Witness ==
    /\ pc = "ready"
    /\ adds = 1
    /\ \E i \in DOMAIN deck.nnc :
          /\ Resolvable(grid, deck.nnc[i])
          /\ DeclaredIndex(grid, ZeroBased(deck.nnc[i], 0))
                > DeclaredIndex(grid, ZeroBased(deck.nnc[i], 3))
          /\ DeclaredKey(grid, deck.nnc[i]) \in Keys(m_input)
    /\ \E i \in DOMAIN m_input :
          /\ m_input[i].cell1 = m_input[i].cell2
          /\ m_input[i].trans \in AddTrans
    /\ Len(m_edit) + Len(m_editr) > 0

(***************************************************************************)
(* C6.  No entry of multiplicativeOverlay or replacementOverlay has a key  *)
(* whose global-index difference is 0, 1, extentX or extentY, even when    *)
(* such pairs are declared in EDITNNC or EDITNNCR records.                 *)
(***************************************************************************)
C6_NoAdjacentOverlay ==
    /\ \A i \in DOMAIN m_edit : ~Adjacent(grid, KeyOf(m_edit[i]))
    /\ \A i \in DOMAIN m_editr : ~Adjacent(grid, KeyOf(m_editr[i]))

\* On the grid with extentX # extentY an edit of difference extentY and a
\* replacement of difference extentX were declared next to a stored entry.
C6_Witness ==
    /\ Constructed
    /\ grid.NX # grid.NY
    /\ \E i \in DOMAIN deck.edit :
          /\ deck.edit[i][7] # 1
          /\ Resolvable(grid, deck.edit[i])
          /\ LET K == DeclaredKey(grid, deck.edit[i]) IN K[2] - K[1] = grid.NY
    /\ \E i \in DOMAIN deck.editr :
          /\ Resolvable(grid, deck.editr[i])
          /\ LET K == DeclaredKey(grid, deck.editr[i]) IN K[2] - K[1] = grid.NX
    /\ Len(m_edit) + Len(m_editr) > 0

(***************************************************************************)
(* C9.  End-to-end example, replacement part: on the 3x3x1 grid with all   *)
(* cells active and global index i + 3*j, the replacement record for the   *)
(* pair (1,2,1)-(2,1,1) with value 9 resolves to the indices 0 and 1, is   *)
(* trivially adjacent, is skipped, and replacementOverlay stays empty.     *)
(* The statement as made (refuted: the pair resolves to 3 and 1):          *)
(***************************************************************************)
ExampleEditr == <<Rec(<<1, 2, 1>>, <<2, 1, 1>>, 9)>>

C9_ExampleReplacementSkipped ==
    (Constructed /\ grid = Grid331 /\ deck.editr = ExampleEditr) => m_editr = <<>>

\* C9 as amended: the record resolves to the indices 3 and 1, key (1,3) of
\* difference 2, is not trivially adjacent, and replacementOverlay holds
\* the one entry (1, 3, 9).
C9_ExampleReplacementStored ==
    (Constructed /\ grid = Grid331 /\ deck.editr = ExampleEditr) =>
        m_editr = <<NNCdata(1, 3, 9)>>

\* The whole example: base (1,1,1)-(3,3,1) of value 5, edit of factor 2 on
\* the same pair, and the replacement record.
C9_Witness ==
    /\ Constructed
    /\ grid = Grid331
    /\ deck.nnc = <<Rec(<<1, 1, 1>>, <<3, 3, 1>>, 5)>>
    /\ deck.edit = <<Rec(<<1, 1, 1>>, <<3, 3, 1>>, 2)>>
    /\ deck.editr = ExampleEditr
    /\ m_input = <<NNCdata(0, 8, 10)>>
    /\ m_edit = <<>>

(***************************************************************************)
(* C10.  Unresolvable geometry is a silent per-record skip: for a record   *)
(* of any category with a coordinate outside [1, extent] or an inactive    *)
(* cell, the three sequences after construction are those the same input   *)
(* without that record produces.                                           *)
(***************************************************************************)
Without(d, category, i) == [d EXCEPT ![category] = RemoveAt(d[category], i)]

C10_UnresolvableRecordIgnored ==
    Constructed =>
        \A category \in {"nnc", "edit", "editr"} :
           \A i \in DOMAIN deck[category] :
              ~Resolvable(grid, deck[category][i]) =>
                 <<m_input, m_edit, m_editr>> \in Construct(grid, Without(deck, category, i))

\* The first NNC record is unresolvable, a later NNC record of the same
\* keyword is stored, and an unresolvable edit or replacement was declared.
C10_Witness ==
    /\ Constructed
    /\ Len(deck.nnc) = 2
    /\ ~Resolvable(grid, deck.nnc[1])
    /\ Len(m_input) = 1
    /\ \/ \E i \in DOMAIN deck.edit : ~Resolvable(grid, deck.edit[i])
       \/ \E i \in DOMAIN deck.editr : ~Resolvable(grid, deck.editr[i])

====
